---- MODULE Spec2Model ----
(***************************************************************************)
(* Batch file-processing pipelines of the dashboard pages.                 *)
(*                                                                         *)
(*   Spec     the background job of the Masszeichnungen page and of the    *)
(*            older script (process_job_worker), with the display loop     *)
(*            that drains the job's status queue.                          *)
(*   SpecImg  process_images_streamlit: crop stage, catalog stage, copy    *)
(*            step and Excel emission, each stage on a thread pool with a  *)
(*            sequential fallback.                                         *)
(*   SpecCad  process_cad_files_streamlit: one pooled ZIP stage with a     *)
(*            sequential fallback.                                         *)
(*   SpecCache successive directory scans of the page's worker through     *)
(*            get_file_list_cached, while the directory changes.           *)
(*   SpecNames the file-name functions of the image pipeline: output       *)
(*            paths of the two stages and create_import_excel.             *)
(*   SpecStart the start button handler: job identifiers, the session job  *)
(*            tables and the per-job spreadsheet files, for several jobs   *)
(*            and browser sessions.                                        *)
(*                                                                         *)
(* The worker thread is modelled at the granularity of the blocks of       *)
(* straight-line code between two status_queue.put calls; the display      *)
(* thread at the granularity of one get_nowait.  Calls into the            *)
(* presentation layer (st.warning, st.progress, ...) are taken not to      *)
(* raise.                                                                  *)
(***************************************************************************)
EXTENDS Integers, Sequences, FiniteSets, TLC

\* Largest number of distinct file stems in the input directory of a job.
MaxFiles == 2

\* A file stem that is present in the output directory but is not part of
\* the current run (left there by an earlier run).
StaleItem == MaxFiles + 1

\* Largest number of input files of a pooled batch (images or CAD files).
MaxItems == 2

\* A file name that is present in an output directory of the image pipeline
\* but is not one of the input files of the run.
StaleImage == MaxItems + 1

\* Largest number of pool threads: max_workers is min(2 | 4 | 8, cpu_count()).
MaxWorkers == 2

\* The wall clock advances in ticks; strftime("%Y%m%d_%H%M%S") keeps whole
\* seconds only.
TicksPerSecond == 2
\* Last tick of the wall clock that is looked at.
MaxClock == 4
\* Largest number of jobs started, over all sessions.
MaxJobs == 3
\* Number of browser sessions on the same project folder.
MaxSessions == 2

\* Freshness window of get_file_list_cached (ttl=300), in cache ticks.
CacheTtl == 2
\* Largest number of scans looked at.
MaxScans == 3

\* Longest file name stem, in characters.
MaxStem == 6
\* Longest stem of the files of a two-file directory.
MaxPairStem == 1

VARIABLES
    \* ---- job worker and display (Spec) ----
    variant,          \* "page": pages/2 Masszeichnungen.py, "skript": skripte/eps_to_jpg_and_pdf_withdate.py
    inputExists,      \* cfg.eps_data exists when the start button is evaluated
    dirFiles,         \* number of distinct stems in cfg.eps_data (stems 1..dirFiles, in listing order)
    hasEps,           \* some stem of the input directory has an .eps variant
    wpc,              \* position of the worker thread
    idx,              \* loop index of "for idx, (name, variants) in enumerate(files.items())"
    status,           \* job.status
    progress,         \* job.progress as a fraction <<numerator, denominator>>
    current_file,     \* job.current_file
    total_files,      \* job.total_files
    processed_files,  \* job.processed_files
    errors,           \* job.errors
    result_df,        \* job.result_df: <<>> is None, otherwise <<the set of stems that have a row>>
    end_time,         \* job.end_time: 0 is None, otherwise the clock value recorded
    copied_to_sap,    \* job.copied_to_sap
    gs_available,     \* local gs_available of the worker
    now,              \* the clock read by datetime.now()
    statusQueue,      \* the job's queue.Queue
    sent,             \* history: every message the worker has put, in put order
    applied,          \* history: every message the display loop has taken, in the order taken
    inTable,          \* job_id in st.session_state.mz_jobs (and its queue in mz_status_queues)
    dpc,              \* position of the session's page run: "drain", "check", "sleep" (poll scheduled), "idle" (run over, none scheduled)
    webjpeg,          \* stems with a .jpg in cfg.dir_webjpeg
    webpdf,           \* stems with a .pdf in cfg.dir_webjpeg
    excelRows,        \* <<>> while no file is written, otherwise <<the rows of Import_MZ_<job_id>.xlsx>>
    \* ---- pooled batches (SpecImg, SpecCad) ----
    nItems,           \* len(image_files) / len(cad_files); the items are 1..nItems in list order
    max_workers,      \* max_workers of the ThreadPoolExecutor
    kind,             \* "img": process_images_streamlit, "cad": process_cad_files_streamlit, "off"
    bpc,              \* position of the script run
    stage,            \* batch stage the run is in (1: crop / ZIP, 2: catalog)
    fut,              \* fut[s][i]: state of the future of item i in the pool of stage s
    subIdx,           \* items submitted so far by the dict comprehension of the current stage
    collected,        \* collected[s]: futures of stage s already yielded by as_completed
    completed_count,  \* completed_count
    warnings,         \* st.warning / st.error records: <<kind, stage, item>>
    seqIdx,           \* loop index of the sequential fallback
    seqCalls,         \* transform calls made by the sequential fallbacks, in call order: <<stage, item>>
    stageInputs,      \* stageInputs[s]: items handed to the batch of stage s
    step_progress,    \* step_progress[s]: numerator of the last value given to the stage's progress bar
    dir_artikelbild_max, \* items with a .tif in dir_artikelbild_max
    dir_katalog,      \* items with a .jpg in dir_katalog
    copyFiles,        \* number of copy tasks submitted by the S-drive step
    importRows,       \* <<>> or <<rows of Import_alle_Bilder_Status.xlsx>>
    created_zips,     \* created_zips
    failed_files,     \* failed_files
    \* ---- start button handler (SpecStart) ----
    handler,          \* "page": pages/2 Masszeichnungen.py, "skript": skripte/eps_to_jpg_and_pdf_withdate.py
    clock,            \* the wall clock, in ticks
    ready,            \* ready[s]: the script run of session s is not inside time.sleep(1)
    wakeAt,           \* wakeAt[s]: tick at which the sleep of session s is over
    jobs,             \* every ProcessingJob created, in creation order: [job_id, session, status]
    mz_jobs,          \* mz_jobs[s][job_id]: index in jobs of the entry of session s (mz_status_queues has the same keys)
    xlsx,             \* xlsx[job_id]: the jobs that have written Import_MZ_<job_id>.xlsx, in write order
    \* ---- cached directory listing (SpecCache) ----
    dirNow,           \* number of image files in cfg.eps_data now
    cacheVal,         \* the entry of st.cache_data for this directory: -1 is none, otherwise the length of the list stored
    cacheAge,         \* ticks since the entry was stored
    scans,            \* number of jobs that have scanned
    scanDir,          \* number of files in the directory when the last job scanned
    scanTotal,        \* job.total_files of the last job
    scanOutcome,      \* "none", "processing", or "no_files" (ValueError "Keine EPS/JPG-Dateien gefunden")
    \* ---- file names (SpecNames) ----
    listing,          \* os.listdir(original_dir): file names, each a sequence of characters
    npc,              \* position in the computation
    cropTargets,      \* file name written by the crop stage for each input file
    catalogTargets,   \* file name written by the catalog stage for each input file
    processed_file_names, \* processed_file_names
    names_without_ext,    \* names_without_ext
    combined,         \* combined
    df                \* <<>> or <<the rows of the DataFrame>>

jobVars == <<variant, inputExists, dirFiles, hasEps, wpc, idx, status, progress,
             current_file, total_files, processed_files, errors, result_df, end_time,
             copied_to_sap, gs_available, now, statusQueue, sent, applied, inTable,
             dpc, webjpeg, webpdf, excelRows>>

batchVars == <<nItems, max_workers, kind, bpc, stage, fut, subIdx, collected, completed_count,
               warnings, seqIdx, seqCalls, stageInputs, step_progress,
               dir_artikelbild_max, dir_katalog, copyFiles, importRows, created_zips, failed_files>>

startVars == <<handler, clock, ready, wakeAt, jobs, mz_jobs, xlsx>>

cacheVars == <<dirNow, cacheVal, cacheAge, scans, scanDir, scanTotal, scanOutcome>>

nameVars == <<listing, npc, cropTargets, catalogTargets, processed_file_names,
              names_without_ext, combined, df>>

vars == <<jobVars, batchVars, startVars, cacheVars, nameVars>>

\* ------------------------------------------------------------------------
\* Fractions (job.progress is a float computed as idx / total_files)
\* ------------------------------------------------------------------------
Frac(n, d) == <<n, d>>
FracLE(a, b) == a[1] * b[2] <= b[1] * a[2]
FracEq(a, b) == a[1] * b[2] = b[1] * a[2]
FracZero == Frac(0, 1)
FracOne == Frac(1, 1)

\* ------------------------------------------------------------------------
\* Messages and error entries
\* ------------------------------------------------------------------------
Msg(t, i, x) == [type |-> t, item |-> i, text |-> x]
Err(k, i, x) == [kind |-> k, item |-> i, text |-> x]

\* (mutant: the queue hands out the newest message first)
Put_Front(q, m) == <<m>> \o q
\* status_queue.put(...)
Put(q, m) == Append(q, m)

RECURSIVE PutAll(_, _)
PutAll(q, ms) == IF ms = <<>> THEN q ELSE PutAll(Put(q, Head(ms)), Tail(ms))

StatusMsg == Msg("status", 0, "")

\* The worker puts the messages ms, in this order.
Send(ms) ==
    /\ statusQueue' = PutAll(statusQueue, ms)
    /\ sent' = sent \o ms

\* ProcessingJob.__init__
JobInit ==
    /\ status = "queued"
    /\ progress = FracZero
    /\ current_file = ""
    /\ total_files = 0
    /\ processed_files = 0
    /\ errors = <<>>
    /\ result_df = <<>>
    /\ end_time = 0
    /\ copied_to_sap = FALSE

\* The pooled batches are not part of a job run.
BatchIdle ==
    /\ nItems = 0
    /\ max_workers = 1
    /\ kind = "off"
    /\ bpc = "off"
    /\ stage = 1
    /\ fut = <<>>
    /\ subIdx = 0
    /\ collected = <<>>
    /\ completed_count = 0
    /\ warnings = <<>>
    /\ seqIdx = 0
    /\ seqCalls = <<>>
    /\ stageInputs = <<>>
    /\ step_progress = <<>>
    /\ dir_artikelbild_max = {}
    /\ dir_katalog = {}
    /\ copyFiles = 0
    /\ importRows = <<>>
    /\ created_zips = <<>>
    /\ failed_files = <<>>

\* No start handler run is looked at.
StartIdle ==
    /\ handler = "page"
    /\ clock = 0
    /\ ready = <<>>
    /\ wakeAt = <<>>
    /\ jobs = <<>>
    /\ mz_jobs = <<>>
    /\ xlsx = <<>>

\* No cached scan is looked at.
CacheIdle ==
    /\ dirNow = 0
    /\ cacheVal = -1
    /\ cacheAge = 0
    /\ scans = 0
    /\ scanDir = 0
    /\ scanTotal = 0
    /\ scanOutcome = "none"

\* No file-name computation is looked at.
NamesIdle ==
    /\ listing = <<>>
    /\ npc = "off"
    /\ cropTargets = <<>>
    /\ catalogTargets = <<>>
    /\ processed_file_names = <<>>
    /\ names_without_ext = <<>>
    /\ combined = <<>>
    /\ df = <<>>

Init ==
    /\ BatchIdle
    /\ StartIdle
    /\ CacheIdle
    /\ NamesIdle
    /\ variant \in {"page", "skript"}
    /\ inputExists \in BOOLEAN
    /\ dirFiles \in 0..MaxFiles
    /\ hasEps \in BOOLEAN
    /\ ~inputExists => dirFiles = 0 /\ ~hasEps
    /\ wpc = "idle"
    /\ idx = 0
    /\ JobInit
    /\ gs_available = FALSE
    /\ now = 1
    /\ statusQueue = <<>>
    /\ sent = <<>>
    /\ applied = <<>>
    /\ inTable = FALSE
    /\ dpc = "idle"
    /\ webjpeg \in SUBSET {StaleItem}
    /\ webpdf = webjpeg
    /\ excelRows = <<>>

\* ------------------------------------------------------------------------
\* Start button handler
\* ------------------------------------------------------------------------
StartJob ==
    /\ wpc = "idle"
    /\ wpc' = "start"
    /\ variant = "page" => inputExists
    /\ inTable' = TRUE
    /\ statusQueue' = <<>>
    /\ sent' = <<>>
    /\ applied' = <<>>
    /\ dpc' = "drain"
    /\ UNCHANGED <<batchVars, startVars, cacheVars, nameVars>>
    /\ UNCHANGED <<variant, inputExists, dirFiles, hasEps, idx, status, progress, current_file,
                   total_files, processed_files, errors, result_df, end_time,
                   copied_to_sap, gs_available, now, webjpeg, webpdf, excelRows>>

\* ------------------------------------------------------------------------
\* process_job_worker
\* ------------------------------------------------------------------------

\* job.end_time in the except branch: the page records it, the script does not.
FatalEndTime(v, old, t) == IF v = "page" THEN t ELSE old

\* (mutant: the except branch reports the job as completed)
Fatal_Completes(pre) ==
    /\ status' = "completed"
    /\ errors' = Append(errors, Err("fatal", 0, ""))
    /\ end_time' = FatalEndTime(variant, end_time, now)
    /\ Send(pre \o <<StatusMsg, Msg("fatal_error", 0, "")>>)
    /\ wpc' = "done"
\* (mutant: the except branch replaces the error trail by the fatal entry)
Fatal_DropsTrail(pre) ==
    /\ status' = "error"
    /\ errors' = <<Err("fatal", 0, "")>>
    /\ end_time' = FatalEndTime(variant, end_time, now)
    /\ Send(pre \o <<StatusMsg, Msg("fatal_error", 0, "")>>)
    /\ wpc' = "done"
\* (mutant: the except branch puts the status but no fatal_error message)
Fatal_NoFinalMessage(pre) ==
    /\ status' = "error"
    /\ errors' = Append(errors, Err("fatal", 0, ""))
    /\ end_time' = FatalEndTime(variant, end_time, now)
    /\ Send(pre \o <<StatusMsg>>)
    /\ wpc' = "done"
\* "except Exception as e:" of process_job_worker, entered from a step that
\* has already put the messages pre.
Fatal(pre) ==
    /\ status' = "error"
    /\ errors' = Append(errors, Err("fatal", 0, ""))
    /\ end_time' = FatalEndTime(variant, end_time, now)
    /\ Send(pre \o <<StatusMsg, Msg("fatal_error", 0, "")>>)
    /\ wpc' = "done"

\* job.status = "processing"; status_queue.put(("status", job))
WorkerBegin ==
    /\ wpc = "start"
    /\ status' = "processing"
    /\ Send(<<StatusMsg>>)
    /\ wpc' = "setup"
    /\ UNCHANGED applied
    /\ now' = now + 1
    /\ UNCHANGED <<batchVars, startVars, cacheVars, nameVars>>
    /\ UNCHANGED <<variant, inputExists, dirFiles, hasEps, dpc, idx, progress, current_file,
                   total_files, processed_files, errors, result_df, end_time,
                   copied_to_sap, gs_available, inTable, webjpeg, webpdf, excelRows>>

\* Messages of the Ghostscript check of the page.
GsMsgs(gs) ==
    IF gs THEN <<Msg("info", 0, "gs")>>
    ELSE <<Msg("warning", 0, "gs"), Msg("warning", 0, "noeps")>>

\* Directory creation, Ghostscript check and font loading, up to the put that
\* follows job.current_file = "Scanne Dateien..." (page); directory creation
\* (script).  mkdir may raise.
WorkerSetup ==
    /\ wpc = "setup"
    /\ now' = now + 1
    /\ \E mkdirOk \in BOOLEAN, gs \in BOOLEAN :
          IF ~mkdirOk
          THEN /\ gs = FALSE
               /\ Fatal(<<>>)
               /\ UNCHANGED <<current_file, gs_available>>
          ELSE IF variant = "page"
          THEN /\ gs_available' = gs
               /\ current_file' = "Scanne Dateien..."
               /\ Send(GsMsgs(gs) \o <<StatusMsg>>)
               /\ wpc' = "scan"
               /\ UNCHANGED <<status, errors, end_time>>
          ELSE /\ gs = TRUE
               /\ wpc' = "scan"
               /\ UNCHANGED <<status, errors, end_time, current_file, gs_available,
                              statusQueue, sent>>
    /\ UNCHANGED applied
    /\ UNCHANGED <<batchVars, startVars, cacheVars, nameVars>>
    /\ UNCHANGED <<variant, inputExists, dirFiles, hasEps, dpc, idx, progress, total_files,
                   processed_files, result_df, copied_to_sap, inTable, webjpeg,
                   webpdf, excelRows>>

\* Messages about the EPS files found (page only).
EpsMsgs ==
    IF ~hasEps THEN <<>>
    ELSE IF ~gs_available THEN <<Msg("warning", 0, "epscount")>>
    ELSE <<Msg("info", 0, "epsinfo")>>

\* The script carries on with an empty file table, the page raises.
RaisesOnNoFiles(v, n) == v = "page" /\ n = 0

\* Directory scan up to the start of the loop.  The page lists through
\* get_file_list_cached and falls back to rglob when that raises.
WorkerScan ==
    /\ wpc = "scan"
    /\ now' = now + 1
    /\ total_files' = dirFiles
    /\ idx' = 0
    /\ \E cacheOk \in BOOLEAN :
          LET listed == IF variant = "skript" THEN <<>>
                        ELSE IF cacheOk THEN <<Msg("info", 0, "found")>>
                        ELSE <<Msg("warning", 0, "cache")>>
          IN
          /\ variant = "skript" => cacheOk
          /\ IF RaisesOnNoFiles(variant, dirFiles)
             THEN Fatal(listed \o <<StatusMsg>>)
             ELSE /\ Send(listed \o <<StatusMsg>> \o
                          (IF variant = "page" THEN EpsMsgs ELSE <<>>))
                  /\ wpc' = "loop"
                  /\ UNCHANGED <<status, errors, end_time>>
    /\ UNCHANGED applied
    /\ UNCHANGED <<batchVars, startVars, cacheVars, nameVars>>
    /\ UNCHANGED <<variant, inputExists, dirFiles, hasEps, dpc, progress, current_file,
                   processed_files, result_df, copied_to_sap, gs_available,
                   inTable, webjpeg, webpdf, excelRows>>

\* job.processed_files and job.progress at the head of a loop iteration
LoopProcessed(i) == i
\* (mutant: progress counts the item in flight as done)
LoopProgress_CountsCurrent(i, total) == IF total > 0 THEN Frac(i + 1, total) ELSE FracZero
LoopProgress(i, total) == IF total > 0 THEN Frac(i, total) ELSE FracZero

\* Head of one loop iteration, up to its status put.  Stem idx + 1 is the
\* (idx)-th key of files.
WorkerItemBegin ==
    /\ wpc = "loop"
    /\ idx < total_files
    /\ now' = now + 1
    /\ current_file' = "item"
    /\ processed_files' = LoopProcessed(idx)
    /\ progress' = LoopProgress(idx, total_files)
    /\ Send(<<StatusMsg>>)
    /\ UNCHANGED applied
    /\ wpc' = "item"
    /\ UNCHANGED <<batchVars, startVars, cacheVars, nameVars>>
    /\ UNCHANGED <<variant, inputExists, dirFiles, hasEps, dpc, idx, status, total_files, errors,
                   result_df, end_time, copied_to_sap, gs_available, inTable,
                   webjpeg, webpdf, excelRows>>

\* What the body of one loop iteration can do.  "admin_*" is the page's
\* retry with a JPG variant after an EPS needed elevated rights.
Outcomes(v) ==
    {"ok", "load_fail", "layout_fail", "pdf_fail"} \cup
    (IF v = "page" /\ hasEps THEN {"admin_jpg_ok", "admin_jpg_fail"} ELSE {})

\* create_layout_image has saved <name>.jpg
WritesJpg(o) == o \in {"ok", "admin_jpg_ok", "pdf_fail"}
\* create_pdf has saved <name>.pdf
WritesPdf(o) == o \in {"ok", "admin_jpg_ok"}
\* the iteration ends in its except branch
ItemRaises(o) == o \in {"load_fail", "layout_fail", "pdf_fail", "admin_jpg_fail"}
\* job.errors.append("Warnung bei ...: EPS benötigt Admin-Rechte, verwende JPG")
ItemWarns(o) == o \in {"admin_jpg_ok", "admin_jpg_fail"}

\* (mutant: the except branch of an iteration does not record the failure)
ItemErrEntries_Unrecorded(o, name) == <<>>
\* job.errors.append(error_msg) in the except branch of an iteration
ItemErrEntries(o, name) == IF ItemRaises(o) THEN <<Err("item", name, "")>> ELSE <<>>

\* Body of one loop iteration: load, layout, PDF, and the except branch.
WorkerItemEnd ==
    /\ wpc = "item"
    /\ now' = now + 1
    /\ \E o \in Outcomes(variant) :
          LET name == idx + 1
              e1 == IF ItemWarns(o) THEN <<Err("warn_admin", name, "")>> ELSE <<>>
              e2 == ItemErrEntries(o, name)
          IN
          /\ webjpeg' = IF WritesJpg(o) THEN webjpeg \cup {name} ELSE webjpeg
          /\ webpdf' = IF WritesPdf(o) THEN webpdf \cup {name} ELSE webpdf
          /\ errors' = errors \o e1 \o e2
          /\ Send(IF ItemRaises(o) THEN <<Msg("error", name, "")>> ELSE <<>>)
    /\ UNCHANGED applied
    /\ idx' = idx + 1
    /\ wpc' = "loop"
    /\ UNCHANGED <<batchVars, startVars, cacheVars, nameVars>>
    /\ UNCHANGED <<variant, inputExists, dirFiles, hasEps, dpc, status, progress, current_file,
                   total_files, processed_files, result_df, end_time,
                   copied_to_sap, gs_available, inTable, excelRows>>

\* (mutant: a failed copy marks the job as failed before it carries on)
CopyFailStatus_MarksError(s) == "error"
\* job.status after a failed copy to the SAP drive (page: left as it is)
CopyFailStatus(s) == s

\* Copy to the SAP drive.  The page catches a failure, the script does not.
WorkerCopy ==
    /\ wpc = "loop"
    /\ idx = total_files
    /\ now' = now + 1
    /\ current_file' = "Kopiere nach SAP..."
    /\ \E copyOk \in BOOLEAN :
          IF copyOk
          THEN /\ copied_to_sap' = (variant = "page")
               /\ Send(<<StatusMsg>>)
               /\ wpc' = "excel"
               /\ UNCHANGED <<status, errors, end_time>>
          ELSE IF variant = "page"
          THEN /\ copied_to_sap' = FALSE
               /\ errors' = Append(errors, Err("warn_copy", 0, "copy"))
               /\ status' = CopyFailStatus(status)
               /\ Send(<<StatusMsg, Msg("warning", 0, "copy")>>)
               /\ wpc' = "excel"
               /\ UNCHANGED end_time
          ELSE /\ Fatal(<<StatusMsg>>)
               /\ UNCHANGED copied_to_sap
    /\ UNCHANGED applied
    /\ UNCHANGED <<batchVars, startVars, cacheVars, nameVars>>
    /\ UNCHANGED <<variant, inputExists, dirFiles, hasEps, dpc, idx, progress, total_files,
                   processed_files, result_df, gs_available, inTable, webjpeg,
                   webpdf, excelRows>>

\* The rows of the DataFrame: one per *.jpg found in the output directory.
ExcelRows(jpgs) == jpgs

\* Excel emission and the terminal transition.
WorkerExcel ==
    /\ wpc = "excel"
    /\ now' = now + 1
    /\ \E excelOk \in BOOLEAN :
          IF excelOk
          THEN /\ excelRows' = <<ExcelRows(webjpeg)>>
               /\ result_df' = <<ExcelRows(webjpeg)>>
               /\ status' = "completed"
               /\ progress' = FracOne
               /\ end_time' = now
               /\ current_file' = "Abgeschlossen"
               /\ Send(<<StatusMsg, StatusMsg, Msg("complete", 0, "")>>)
               /\ wpc' = "done"
               /\ UNCHANGED errors
          ELSE /\ Fatal(<<StatusMsg>>)
               /\ current_file' = "Erstelle Excel..."
               /\ UNCHANGED <<excelRows, result_df, progress>>
    /\ UNCHANGED applied
    /\ UNCHANGED <<batchVars, startVars, cacheVars, nameVars>>
    /\ UNCHANGED <<variant, inputExists, dirFiles, hasEps, dpc, idx, total_files, processed_files,
                   copied_to_sap, gs_available, inTable, webjpeg, webpdf>>

\* ------------------------------------------------------------------------
\* Display loop
\* ------------------------------------------------------------------------

\* One get_nowait of the drain loop and the branch it takes.  The job table
\* holds the job object itself, so a "status" or "complete" message re-binds
\* the entry to the same object; the page appends a warning's text to
\* job.errors, the script ignores everything but status and complete.
DisplayDrain ==
    /\ dpc = "drain"
    /\ inTable
    /\ statusQueue /= <<>>
    /\ statusQueue' = Tail(statusQueue)
    /\ applied' = Append(applied, Head(statusQueue))
    /\ UNCHANGED sent
    /\ LET m == Head(statusQueue) IN
       errors' = IF variant = "page" /\ m.type = "warning"
                 THEN Append(errors, Err("shown_warning", 0, m.text))
                 ELSE errors
    /\ UNCHANGED <<batchVars, startVars, cacheVars, nameVars>>
    /\ UNCHANGED <<variant, inputExists, dirFiles, hasEps, dpc, wpc, idx, status, progress,
                   current_file, total_files, processed_files, result_df,
                   end_time, copied_to_sap, gs_available, now, inTable, webjpeg,
                   webpdf, excelRows>>

\* (mutant: the drain loop uses a blocking get, which never raises queue.Empty)
GetRaisesEmpty_Blocking(present, q) == FALSE
\* get_nowait raises queue.Empty (there is nothing to drain when the job's
\* queue is not in mz_status_queues)
GetRaisesEmpty(present, q) == ~present \/ q = <<>>

\* "except queue.Empty: pass": the drain loop is over and the page run goes
\* on to render the jobs, down to the auto-refresh check.
DrainEmpty ==
    /\ dpc = "drain"
    /\ GetRaisesEmpty(inTable, statusQueue)
    /\ dpc' = "check"
    /\ UNCHANGED <<batchVars, startVars, cacheVars, nameVars>>
    /\ UNCHANGED <<variant, inputExists, dirFiles, hasEps, wpc, idx, status, progress,
                   current_file, total_files, processed_files, errors, result_df,
                   end_time, copied_to_sap, gs_available, now, statusQueue,
                   sent, applied, inTable, webjpeg, webpdf, excelRows>>

\* any(job.status == "processing" for job in st.session_state.mz_jobs.values())
AnyProcessing == inTable /\ status = "processing"

\* Auto-refresh: with a processing job the run sleeps and reruns, otherwise
\* the run ends and nothing is scheduled.
NextPoll(processing) == IF processing THEN "sleep" ELSE "idle"

AutoRefresh ==
    /\ dpc = "check"
    /\ dpc' = NextPoll(AnyProcessing)
    /\ UNCHANGED <<batchVars, startVars, cacheVars, nameVars>>
    /\ UNCHANGED <<variant, inputExists, dirFiles, hasEps, wpc, idx, status, progress,
                   current_file, total_files, processed_files, errors, result_df,
                   end_time, copied_to_sap, gs_available, now, statusQueue,
                   sent, applied, inTable, webjpeg, webpdf, excelRows>>

\* time.sleep(2); st.rerun(): the scheduled poll starts the next page run.
\* A page run that ended without scheduling one starts again when the user
\* touches a widget.
Rerun ==
    /\ dpc \in {"sleep", "idle"}
    /\ wpc /= "idle"
    /\ dpc' = "drain"
    /\ UNCHANGED <<batchVars, startVars, cacheVars, nameVars>>
    /\ UNCHANGED <<variant, inputExists, dirFiles, hasEps, wpc, idx, status, progress,
                   current_file, total_files, processed_files, errors, result_df,
                   end_time, copied_to_sap, gs_available, now, statusQueue,
                   sent, applied, inTable, webjpeg, webpdf, excelRows>>

\* "Job aus Liste entfernen", offered for a completed job with a result;
\* the handler ends with st.rerun().
RemoveJob ==
    /\ dpc \in {"sleep", "idle"}
    /\ inTable
    /\ status = "completed"
    /\ result_df /= <<>>
    /\ inTable' = FALSE
    /\ dpc' = "drain"
    /\ UNCHANGED <<batchVars, startVars, cacheVars, nameVars>>
    /\ UNCHANGED <<variant, inputExists, dirFiles, hasEps, wpc, idx, status, progress,
                   current_file, total_files, processed_files, errors, result_df,
                   end_time, copied_to_sap, gs_available, now, statusQueue,
                   sent, applied, webjpeg, webpdf, excelRows>>

\* ------------------------------------------------------------------------
\* Properties of the job record
\* ------------------------------------------------------------------------
Seq2Set(q) == {q[k] : k \in 1..Len(q)}

\* Stems of the run whose loop iteration ended in its except branch.
FailedItems == {e.item : e \in {x \in Seq2Set(errors) : x.kind = "item"}}
\* Stems of the run whose loop iteration ran to its end without raising.
SucceededItems == (1..idx) \ FailedItems

\* C1: the status of a job only moves queued -> processing and
\* processing -> completed | error; no step of the worker or of the display
\* loop changes it in any other way, so processing is entered once and a
\* terminal status is never left.
C1_StatusTransitions ==
    [][status' /= status =>
          \/ status = "queued" /\ status' = "processing"
          \/ status = "processing" /\ status' \in {"completed", "error"}]_vars

\* C1 witness: a job that went through a failed SAP copy, completed, and
\* whose queue the display loop has drained (applying the copy warning).
C1_Witness ==
    /\ status = "completed"
    /\ statusQueue = <<>>
    /\ \E k \in 1..Len(errors) : errors[k].kind = "shown_warning" /\ errors[k].text = "copy"

\* C2 (as claimed): processed_files <= total_files, and once total_files > 0
\* progress equals processed_files / total_files, in every state including
\* completed.
C2_CountersAndProgress ==
    /\ processed_files <= total_files
    /\ total_files > 0 => FracEq(progress, Frac(processed_files, total_files))

\* C3: progress never decreases during a run, stays within [0, 1], and is
\* 1.0 exactly in status completed (never in queued, processing or error).
C3_Progress ==
    /\ [](/\ FracLE(FracZero, progress)
          /\ FracLE(progress, FracOne)
          /\ FracEq(progress, FracOne) <=> status = "completed")
    /\ [][FracLE(progress, progress')]_vars

\* C3 witness: a completed run over at least two files.
C3_Witness ==
    /\ status = "completed"
    /\ total_files >= 2
    /\ progress = FracOne

\* C4 (as claimed): end_time is unset while the status is queued or
\* processing and set whenever the status is completed or error.
C4_EndTime ==
    /\ status \in {"queued", "processing"} => end_time = 0
    /\ status \in {"completed", "error"} => end_time /= 0

\* C10 (as claimed): the written spreadsheet has exactly one row per item of
\* the current run that was processed without a failure, and no other row.
C10_SpreadsheetRows ==
    excelRows /= <<>> => excelRows[1] = SucceededItems

\* The worker has finished the directory scan.
ScanDone == wpc \in {"loop", "item", "excel", "done"}
\* Number of messages of type t the worker has put.
SentOfType(t) == Cardinality({k \in 1..Len(sent) : sent[k].type = t})
HasFatalEntry == \E k \in 1..Len(errors) : errors[k].kind = "fatal"

\* C11 (as claimed): a job started on an input directory that does not exist
\* never reaches completed; it ends in error with zero items processed and
\* exactly one fatal message.
C11_MissingInputDirectory ==
    (~inputExists /\ wpc /= "idle") =>
        /\ status /= "completed"
        /\ wpc = "done" => /\ status = "error"
                           /\ processed_files = 0
                           /\ idx = 0
                           /\ SentOfType("fatal_error") = 1

\* C12 (as claimed): once the scan has found zero valid items the job is in
\* error with a fatal entry, and neither the copy step nor the spreadsheet
\* emission has been entered.
C12_NoItemsAborts ==
    (dirFiles = 0 /\ ScanDone) =>
        /\ status = "error"
        /\ HasFatalEntry
        /\ excelRows = <<>>
        /\ current_file \notin {"Kopiere nach SAP...", "Erstelle Excel...", "Abgeschlossen"}

\* C13 (as claimed): whatever happens in the copy step (job.current_file is
\* "Kopiere nach SAP..." from its start until the Excel step starts), the
\* status stays processing: a failed copy never turns the job into error.
C13_CopyFailureIsWarning ==
    current_file = "Kopiere nach SAP..." => status = "processing"

\* C14: an iteration that raises appends its entry to job.errors, leaves the
\* status alone and moves on to the next item; a completed job has visited
\* every item, failed ones included; a job in error has a fatal entry, so
\* item failures alone never lead to error.
C14_ItemFailureContinues ==
    /\ [](/\ status = "completed" => idx = total_files
          /\ status = "error" => HasFatalEntry)
    /\ [][\A n \in 1..total_files :
            (sent' = Append(sent, Msg("error", n, ""))) =>
                /\ Len(errors') > Len(errors)
                /\ errors'[Len(errors')] = Err("item", n, "")
                /\ status' = status
                /\ idx' = idx + 1
                /\ wpc' = "loop"]_vars

\* C14 witness: a completed job whose first item failed.
C14_Witness ==
    /\ status = "completed"
    /\ total_files >= 2
    /\ 1 \in FailedItems

\* The JobRecord: the fields of the ProcessingJob object.
JobRecord ==
    [status |-> status, progress |-> progress, current_file |-> current_file,
     total_files |-> total_files, processed_files |-> processed_files,
     errors |-> errors, result_df |-> result_df, end_time |-> end_time,
     copied_to_sap |-> copied_to_sap]

\* st.session_state.mz_jobs[job_id]: the start handler stores the job object
\* itself and every "status" / "complete" message carries that same object.
DisplayView == JobRecord

\* C15 (as claimed): the job view held in the session state changes only in
\* a step in which the display loop takes a message from the queue.
C15_DisplayHoldsCopy ==
    [][(inTable /\ inTable' /\ DisplayView' /= DisplayView) => applied' /= applied]_vars

\* C16 (as claimed): while the status is processing, a step of the display
\* loop writes no field of the JobRecord.
C16_SingleWriter ==
    [][(status = "processing" /\ applied' /= applied) => JobRecord' = JobRecord]_vars

\* C17: the messages the display loop has taken, followed by those still in
\* the queue, are exactly the messages the worker has put, in put order:
\* nothing is reordered, taken twice or passed over.
C17_FifoDelivery ==
    sent = applied \o statusQueue

\* C17 witness: the worker is still running, the display loop has taken
\* some messages and others are waiting in the queue.
C17_Witness ==
    /\ wpc = "item"
    /\ Len(applied) >= 2
    /\ Len(statusQueue) >= 2

\* C19: a completed job has its spreadsheet written and result_df set; a job
\* whose spreadsheet emission raised is in error with result_df unset.
C19_CompletedAfterSummary ==
    /\ status = "completed" => excelRows /= <<>> /\ result_df /= <<>>
    /\ (wpc = "done" /\ current_file = "Erstelle Excel...") =>
           status = "error" /\ result_df = <<>>

\* C19 witness: the spreadsheet emission raised after all items were
\* processed.
C19_Witness ==
    /\ wpc = "done"
    /\ current_file = "Erstelle Excel..."
    /\ status = "error"
    /\ total_files >= 1

\* C20: every started worker reaches a terminal status, and the last message
\* it puts is complete or fatal_error.
C20_RunsToTerminal ==
    (wpc = "start") ~>
        /\ wpc = "done"
        /\ status \in {"completed", "error"}
        /\ sent /= <<>>
        /\ sent[Len(sent)].type \in {"complete", "fatal_error"}

\* C20 witness: a worker that ended after its last message, in error.
C20_Witness ==
    /\ wpc = "done"
    /\ status = "error"
    /\ sent /= <<>>
    /\ sent[Len(sent)].type = "fatal_error"

\* C23: the drain loop is left only on an empty queue, and it is always left,
\* whatever the worker does or fails to do; the auto-refresh check schedules
\* the next poll exactly when the job is in the table with status
\* processing, and otherwise ends the run with nothing scheduled.
C23_NonBlockingPoll ==
    /\ [][(dpc = "drain" /\ dpc' = "check") => (~inTable \/ statusQueue = <<>>)]_vars
    /\ [][(dpc = "check" /\ dpc' /= "check") =>
            /\ dpc' \in {"sleep", "idle"}
            /\ dpc' = "sleep" <=> AnyProcessing]_vars
    /\ (dpc = "drain") ~> (dpc = "check")

\* C23 witness: the job is over, its messages have been taken and the last
\* page run ended without scheduling a poll.
C23_Witness ==
    /\ dpc = "idle"
    /\ status = "completed"
    /\ statusQueue = <<>>
    /\ Len(applied) >= 2

\* C26 (as claimed): while a started job has not finished, the page run does
\* not end without scheduling the next poll.
C26_PollsUntilTerminal ==
    (inTable /\ wpc \notin {"idle", "done"}) => dpc /= "idle"

\* Entries of job.errors about the failed copy to the SAP drive.
CopyFailureEntries == {k \in 1..Len(errors) : errors[k].text = "copy"}

\* C29 (as claimed): a failed copy to the SAP drive appears at most once in
\* job.errors, also after the display loop has applied its warning message.
C29_EventListedOnce ==
    Cardinality(CopyFailureEntries) <= 1

\* Number of fatal entries in job.errors.
FatalEntries == Cardinality({k \in 1..Len(errors) : errors[k].kind = "fatal"})

\* C21: the step that takes the job to error appends exactly one fatal entry
\* behind the entries accumulated so far, which it leaves as they are, and
\* puts exactly one fatal_error message, which is the last message the
\* worker ever puts; a job in error never has more than one fatal entry.
C21_SingleFatalAfterTrail ==
    /\ [](status = "error" =>
            /\ FatalEntries = 1
            /\ SentOfType("fatal_error") = 1
            /\ sent[Len(sent)].type = "fatal_error")
    /\ [][(status /= "error" /\ status' = "error") =>
            /\ errors' = Append(errors, Err("fatal", 0, ""))
            /\ SentOfType("fatal_error") = 0]_vars

\* C21 witness: a job in error whose trail holds an item failure from
\* before the fatal entry.
C21_Witness ==
    /\ status = "error"
    /\ Len(errors) >= 2
    /\ errors[1].kind = "item"
    /\ errors[Len(errors)].kind = "fatal"

Next ==
    \/ StartJob
    \/ WorkerBegin
    \/ WorkerSetup
    \/ WorkerScan
    \/ WorkerItemBegin
    \/ WorkerItemEnd
    \/ WorkerCopy
    \/ WorkerExcel
    \/ DisplayDrain
    \/ DrainEmpty
    \/ AutoRefresh
    \/ Rerun
    \/ RemoveJob

Spec == Init /\ [][Next]_vars

\* The steps of the worker thread.
Worker ==
    \/ WorkerBegin
    \/ WorkerSetup
    \/ WorkerScan
    \/ WorkerItemBegin
    \/ WorkerItemEnd
    \/ WorkerCopy
    \/ WorkerExcel

\* The started thread is scheduled as long as it has a step to take, and
\* every call it makes returns or raises.
FairSpec == Spec /\ WF_vars(Worker)

\* The page run is not suspended inside its drain loop; nothing is assumed
\* about the worker thread.
FairDisplaySpec == Spec /\ WF_vars(DisplayDrain \/ DrainEmpty)

\* ========================================================================
\* Pooled batches: process_images_streamlit, process_cad_files_streamlit
\* ========================================================================

\* No job of the Masszeichnungen page is part of a pooled batch run.
JobIdle ==
    /\ variant = "page"
    /\ inputExists = TRUE
    /\ dirFiles = 0
    /\ hasEps = FALSE
    /\ wpc = "off"
    /\ idx = 0
    /\ JobInit
    /\ gs_available = FALSE
    /\ now = 1
    /\ statusQueue = <<>>
    /\ sent = <<>>
    /\ applied = <<>>
    /\ inTable = FALSE
    /\ dpc = "idle"
    /\ webjpeg = {}
    /\ webpdf = {}
    /\ excelRows = <<>>

Items == 1..nItems

\* image_files / cad_files as a list
ItemList == [k \in 1..nItems |-> k]

\* State after the file list is read and before the first stage.
BatchInit(k, stages) ==
    /\ JobIdle
    /\ StartIdle
    /\ CacheIdle
    /\ NamesIdle
    /\ kind = k
    /\ nItems \in 0..MaxItems
    /\ max_workers \in 1..MaxWorkers
    /\ bpc = "start"
    /\ stage = 1
    /\ fut = [s \in 1..stages |-> [i \in 1..nItems |-> "unsub"]]
    /\ subIdx = 0
    /\ collected = [s \in 1..stages |-> {}]
    /\ completed_count = 0
    /\ warnings = <<>>
    /\ seqIdx = 0
    /\ seqCalls = <<>>
    /\ stageInputs = [s \in 1..stages |-> <<>>]
    /\ step_progress = [s \in 1..stages |-> 0]
    /\ dir_katalog = {}
    /\ copyFiles = 0
    /\ importRows = <<>>
    /\ created_zips = <<>>
    /\ failed_files = <<>>

\* In network mode the output directories persist, so a .tif of an earlier
\* run may already be there.
InitImg ==
    /\ BatchInit("img", 2)
    /\ dir_artikelbild_max \in SUBSET ((Items \cap {1}) \cup {StaleImage})

\* ------------------------------------------------------------------------
\* ThreadPoolExecutor
\* ------------------------------------------------------------------------
Busy(s) == {i \in Items : fut[s][i] \in {"running", "hang"}}
Queued(s) == {i \in Items : fut[s][i] = "queued"}
Unfinished(s) == {i \in Items : fut[s][i] \in {"queued", "running", "hang"}}

\* executor.submit inside the dict comprehension: the next item is queued,
\* or the pool (its construction, or the submit) raises.
PoolSubmit ==
    /\ bpc = "pool"
    /\ subIdx < Len(stageInputs[stage])
    /\ \/ /\ fut' = [fut EXCEPT ![stage][stageInputs[stage][subIdx + 1]] = "queued"]
          /\ subIdx' = subIdx + 1
          /\ bpc' = bpc
       \/ /\ bpc' = "abort"
          /\ UNCHANGED <<fut, subIdx>>
    /\ UNCHANGED <<jobVars, startVars, cacheVars, nameVars>>
    /\ UNCHANGED <<nItems, max_workers, kind, stage, collected, completed_count,
                   warnings, seqIdx, seqCalls, stageInputs, step_progress,
                   dir_artikelbild_max, dir_katalog, copyFiles, importRows,
                   created_zips, failed_files>>

\* A free pool thread takes the oldest queued work item of its pool.
PoolStart ==
    /\ \E s \in DOMAIN fut :
          /\ Queued(s) /= {}
          /\ Cardinality(Busy(s)) < max_workers
          /\ LET i == CHOOSE j \in Queued(s) : \A k \in Queued(s) : j <= k
             IN fut' = [fut EXCEPT ![s][i] = "running"]
    /\ UNCHANGED <<jobVars, startVars, cacheVars, nameVars>>
    /\ UNCHANGED <<nItems, max_workers, kind, bpc, stage, subIdx, collected,
                   completed_count, warnings, seqIdx, seqCalls, stageInputs,
                   step_progress, dir_artikelbild_max, dir_katalog, copyFiles,
                   importRows, created_zips, failed_files>>

\* The transform of the stage: crop_white_or_transparent_border,
\* process_image_for_catalog or create_single_zip.
\* process_image_for_catalog opens the .tif of the item: it cannot succeed
\* when the file is missing.
CanSucceed(k, s, i) ==
    IF k = "img" /\ s = 2 THEN i \in dir_artikelbild_max ELSE TRUE

\* Files after the transform of item i in stage s has succeeded.
TifsAfter(k, s, i) ==
    IF k = "img" /\ s = 1 THEN dir_artikelbild_max \cup {i} ELSE dir_artikelbild_max
JpgsAfter(k, s, i) ==
    IF k = "img" /\ s = 2 THEN dir_katalog \cup {i} ELSE dir_katalog

\* A running transform returns or raises.
PoolFinish ==
    /\ \E s \in DOMAIN fut, i \in Items :
          /\ fut[s][i] = "running"
          /\ \E ok \in BOOLEAN :
                /\ ok => CanSucceed(kind, s, i)
                /\ fut' = [fut EXCEPT ![s][i] = IF ok THEN "ok" ELSE "fail"]
                /\ dir_artikelbild_max' = IF ok THEN TifsAfter(kind, s, i)
                                          ELSE dir_artikelbild_max
                /\ dir_katalog' = IF ok THEN JpgsAfter(kind, s, i) ELSE dir_katalog
    /\ UNCHANGED <<jobVars, startVars, cacheVars, nameVars>>
    /\ UNCHANGED <<nItems, max_workers, kind, bpc, stage, subIdx, collected,
                   completed_count, warnings, seqIdx, seqCalls, stageInputs,
                   step_progress, copyFiles, importRows, created_zips, failed_files>>

\* A running transform never returns.
PoolHang ==
    /\ \E s \in DOMAIN fut, i \in Items :
          /\ fut[s][i] = "running"
          /\ fut' = [fut EXCEPT ![s][i] = "hang"]
    /\ UNCHANGED <<jobVars, startVars, cacheVars, nameVars>>
    /\ UNCHANGED <<nItems, max_workers, kind, bpc, stage, subIdx, collected,
                   completed_count, warnings, seqIdx, seqCalls, stageInputs,
                   step_progress, dir_artikelbild_max, dir_katalog, copyFiles,
                   importRows, created_zips, failed_files>>

\* as_completed yields a future once it is done and has not been yielded yet;
\* it yields nothing while the futures left are still pending or running.
AsCompleted(s) == {i \in Items : fut[s][i] \in {"ok", "fail"} /\ i \notin collected[s]}

\* (mutant: the pool is left without waiting for its work items)
ShutdownWaits_NoWait(s) == TRUE
\* ThreadPoolExecutor.__exit__ is shutdown(wait=True): it returns when no
\* submitted work item is queued or running any more.
ShutdownWaits(s) == Unfinished(s) = {}

\* ------------------------------------------------------------------------
\* process_images_streamlit
\* ------------------------------------------------------------------------

\* The items handed to a stage: both stages iterate over image_files.
StageItems(s) == ItemList

\* "if not image_files: return None", else the first pool is entered.
ImgBegin ==
    /\ kind = "img"
    /\ bpc = "start"
    /\ IF nItems = 0
       THEN /\ bpc' = "returned_none"
            /\ UNCHANGED stageInputs
       ELSE /\ bpc' = "pool"
            /\ stageInputs' = [stageInputs EXCEPT ![1] = StageItems(1)]
    /\ UNCHANGED <<jobVars, startVars, cacheVars, nameVars>>
    /\ UNCHANGED <<nItems, max_workers, kind, stage, fut, subIdx, collected,
                   completed_count, warnings, seqIdx, seqCalls, step_progress,
                   dir_artikelbild_max, dir_katalog, copyFiles, importRows,
                   created_zips, failed_files>>

\* Body of "for future in as_completed(future_to_file)".
ImgCollect ==
    /\ kind = "img"
    /\ bpc = "pool"
    /\ subIdx = Len(stageInputs[stage])
    /\ \E i \in AsCompleted(stage) :
          /\ collected' = [collected EXCEPT ![stage] = @ \cup {i}]
          /\ IF fut[stage][i] = "ok"
             THEN /\ completed_count' = completed_count + 1
                  /\ step_progress' = [step_progress EXCEPT ![stage] = completed_count + 1]
                  /\ UNCHANGED warnings
             ELSE /\ warnings' = Append(warnings, <<"item", stage, i>>)
                  /\ UNCHANGED <<completed_count, step_progress>>
    /\ UNCHANGED <<jobVars, startVars, cacheVars, nameVars>>
    /\ UNCHANGED <<nItems, max_workers, kind, bpc, stage, fut, subIdx, seqIdx,
                   seqCalls, stageInputs, dir_artikelbild_max, dir_katalog,
                   copyFiles, importRows, created_zips, failed_files>>

\* What follows a stage: the catalog stage over StageItems(2), or the copy step.
ImgAdvance ==
    /\ completed_count' = 0
    /\ subIdx' = 0
    /\ seqIdx' = 0
    /\ IF stage = 1
       THEN /\ stage' = 2
            /\ bpc' = "pool"
            /\ stageInputs' = [stageInputs EXCEPT ![2] = StageItems(2)]
       ELSE /\ bpc' = "copy"
            /\ UNCHANGED <<stage, stageInputs>>

\* The as_completed loop has yielded every future and the with block is left.
ImgStageDone ==
    /\ kind = "img"
    /\ bpc = "pool"
    /\ subIdx = Len(stageInputs[stage])
    /\ collected[stage] = Items
    /\ ShutdownWaits(stage)
    /\ ImgAdvance
    /\ UNCHANGED <<jobVars, startVars, cacheVars, nameVars>>
    /\ UNCHANGED <<nItems, max_workers, kind, fut, collected, warnings, seqCalls,
                   step_progress, dir_artikelbild_max, dir_katalog, copyFiles,
                   importRows, created_zips, failed_files>>

\* The with block is left by the exception, which the outer except catches:
\* st.error, st.warning, completed_count = 0.
ImgFallback ==
    /\ kind = "img"
    /\ bpc = "abort"
    /\ ShutdownWaits(stage)
    /\ warnings' = Append(warnings, <<"fallback", stage, 0>>)
    /\ completed_count' = 0
    /\ seqIdx' = 0
    /\ bpc' = "seq"
    /\ UNCHANGED <<jobVars, startVars, cacheVars, nameVars>>
    /\ UNCHANGED <<nItems, max_workers, kind, stage, fut, subIdx, collected,
                   seqCalls, stageInputs, step_progress, dir_artikelbild_max,
                   dir_katalog, copyFiles, importRows, created_zips, failed_files>>

\* (mutant: the fallback walks the list from its end)
SeqItem_Reversed(items, k) == items[Len(items) - k]
\* "for idx, file_path in enumerate(image_files)": the item of iteration k
SeqItem(items, k) == items[k + 1]

\* One iteration of the sequential fallback: the transform returns, raises
\* or never returns.
ImgSeqStep ==
    /\ kind = "img"
    /\ bpc = "seq"
    /\ seqIdx < nItems
    /\ LET i == SeqItem(ItemList, seqIdx) IN
       /\ seqCalls' = Append(seqCalls, <<stage, i>>)
       /\ \E o \in {"ok", "fail", "hang"} :
             /\ o = "ok" => CanSucceed(kind, stage, i)
             /\ dir_artikelbild_max' = IF o = "ok" THEN TifsAfter(kind, stage, i)
                                       ELSE dir_artikelbild_max
             /\ dir_katalog' = IF o = "ok" THEN JpgsAfter(kind, stage, i) ELSE dir_katalog
             /\ completed_count' = IF o = "ok" THEN completed_count + 1 ELSE completed_count
             /\ step_progress' = IF o = "ok"
                                 THEN [step_progress EXCEPT ![stage] = seqIdx + 1]
                                 ELSE step_progress
             /\ warnings' = IF o = "fail" THEN Append(warnings, <<"item", stage, i>>)
                            ELSE warnings
             /\ bpc' = IF o = "hang" THEN "stuck" ELSE bpc
             /\ seqIdx' = IF o = "hang" THEN seqIdx ELSE seqIdx + 1
    /\ UNCHANGED <<jobVars, startVars, cacheVars, nameVars>>
    /\ UNCHANGED <<nItems, max_workers, kind, stage, fut, subIdx, collected,
                   stageInputs, copyFiles, importRows, created_zips, failed_files>>

\* The sequential loop has run over every item.
ImgSeqDone ==
    /\ kind = "img"
    /\ bpc = "seq"
    /\ seqIdx = nItems
    /\ ImgAdvance
    /\ UNCHANGED <<jobVars, startVars, cacheVars, nameVars>>
    /\ UNCHANGED <<nItems, max_workers, kind, fut, collected, warnings, seqCalls,
                   step_progress, dir_artikelbild_max, dir_katalog, copyFiles,
                   importRows, created_zips, failed_files>>

\* Copy tasks of the S-drive step: the originals, every *.tif of
\* dir_artikelbild_max and every *.jpg of dir_katalog.
CopyTasks == nItems + Cardinality(dir_artikelbild_max) + Cardinality(dir_katalog)

\* Step 3: skipped, S drive unreachable, or the copies are made.
ImgCopy ==
    /\ kind = "img"
    /\ bpc = "copy"
    /\ \E s_drive \in {"off", "unreachable", "on"} :
          copyFiles' = IF s_drive = "on" THEN CopyTasks ELSE 0
    /\ bpc' = "excel"
    /\ UNCHANGED <<jobVars, startVars, cacheVars, nameVars>>
    /\ UNCHANGED <<nItems, max_workers, kind, stage, fut, subIdx, collected,
                   completed_count, warnings, seqIdx, seqCalls, stageInputs,
                   step_progress, dir_artikelbild_max, dir_katalog, importRows,
                   created_zips, failed_files>>

\* create_import_excel(dir_originalbilder, ...): one row per image file of
\* the originals directory.
ImportRows == Items

\* Step 4: the Excel file is written, or to_excel raises and the outer
\* except returns None.
ImgExcel ==
    /\ kind = "img"
    /\ bpc = "excel"
    /\ \E excelOk \in BOOLEAN :
          IF excelOk
          THEN /\ importRows' = <<ImportRows>>
               /\ bpc' = "done"
          ELSE /\ bpc' = "failed"
               /\ UNCHANGED importRows
    /\ UNCHANGED <<jobVars, startVars, cacheVars, nameVars>>
    /\ UNCHANGED <<nItems, max_workers, kind, stage, fut, subIdx, collected,
                   completed_count, warnings, seqIdx, seqCalls, stageInputs,
                   step_progress, dir_artikelbild_max, dir_katalog, copyFiles,
                   created_zips, failed_files>>

NextImg ==
    \/ ImgBegin
    \/ PoolSubmit
    \/ PoolStart
    \/ PoolFinish
    \/ PoolHang
    \/ ImgCollect
    \/ ImgStageDone
    \/ ImgFallback
    \/ ImgSeqStep
    \/ ImgSeqDone
    \/ ImgCopy
    \/ ImgExcel

SpecImg == InitImg /\ [][NextImg]_vars

\* The pool threads and the script thread are scheduled by the operating
\* system: a step that can be taken is eventually taken.
FairSpecImg == SpecImg /\ WF_vars(NextImg)
\* ------------------------------------------------------------------------
\* process_cad_files_streamlit
\* ------------------------------------------------------------------------
InitCad ==
    /\ BatchInit("cad", 1)
    /\ dir_artikelbild_max = {}

\* "if not cad_files: return None", else the pool is entered.
CadBegin ==
    /\ kind = "cad"
    /\ bpc = "start"
    /\ IF nItems = 0
       THEN /\ bpc' = "returned_none"
            /\ UNCHANGED stageInputs
       ELSE /\ bpc' = "pool"
            /\ stageInputs' = [stageInputs EXCEPT ![1] = ItemList]
    /\ UNCHANGED <<jobVars, startVars, cacheVars, nameVars>>
    /\ UNCHANGED <<nItems, max_workers, kind, stage, fut, subIdx, collected,
                   completed_count, warnings, seqIdx, seqCalls, step_progress,
                   dir_artikelbild_max, dir_katalog, copyFiles, importRows,
                   created_zips, failed_files>>

\* (mutant: a file whose ZIP was not created is not recorded)
FailedAfter_Dropped(ff, i, ok) == ff
\* failed_files after the result of item i: appended to unless the ZIP exists
FailedAfter(ff, i, ok) == IF ok THEN ff ELSE Append(ff, i)
\* created_zips after the result of item i
CreatedAfter(cz, i, ok) == IF ok THEN Append(cz, i) ELSE cz

\* Body of "for future in as_completed(future_to_file)".
CadCollect ==
    /\ kind = "cad"
    /\ bpc = "pool"
    /\ subIdx = Len(stageInputs[stage])
    /\ \E i \in AsCompleted(stage) :
          LET ok == fut[stage][i] = "ok" IN
          /\ collected' = [collected EXCEPT ![stage] = @ \cup {i}]
          /\ created_zips' = CreatedAfter(created_zips, i, ok)
          /\ failed_files' = FailedAfter(failed_files, i, ok)
          /\ completed_count' = IF ok THEN completed_count + 1 ELSE completed_count
          /\ warnings' = IF ok THEN warnings ELSE Append(warnings, <<"item", stage, i>>)
          /\ step_progress' = [step_progress EXCEPT ![stage] =
                                   Len(created_zips') + Len(failed_files')]
    /\ UNCHANGED <<jobVars, startVars, cacheVars, nameVars>>
    /\ UNCHANGED <<nItems, max_workers, kind, bpc, stage, fut, subIdx, seqIdx,
                   seqCalls, stageInputs, dir_artikelbild_max, dir_katalog,
                   copyFiles, importRows>>

\* The as_completed loop has yielded every future and the with block is left.
CadStageDone ==
    /\ kind = "cad"
    /\ bpc = "pool"
    /\ subIdx = Len(stageInputs[stage])
    /\ collected[stage] = Items
    /\ ShutdownWaits(stage)
    /\ bpc' = "summary"
    /\ UNCHANGED <<jobVars, startVars, cacheVars, nameVars>>
    /\ UNCHANGED <<nItems, max_workers, kind, stage, fut, subIdx, collected,
                   completed_count, warnings, seqIdx, seqCalls, stageInputs,
                   step_progress, dir_artikelbild_max, dir_katalog, copyFiles,
                   importRows, created_zips, failed_files>>

\* The outer except: st.error, st.warning, both result lists are emptied.
CadFallback ==
    /\ kind = "cad"
    /\ bpc = "abort"
    /\ ShutdownWaits(stage)
    /\ warnings' = Append(warnings, <<"fallback", stage, 0>>)
    /\ created_zips' = <<>>
    /\ failed_files' = <<>>
    /\ seqIdx' = 0
    /\ bpc' = "seq"
    /\ UNCHANGED <<jobVars, startVars, cacheVars, nameVars>>
    /\ UNCHANGED <<nItems, max_workers, kind, stage, fut, subIdx, collected,
                   completed_count, seqCalls, stageInputs, step_progress,
                   dir_artikelbild_max, dir_katalog, copyFiles, importRows>>

\* One iteration of the sequential fallback: create_single_zip returns the
\* path of an existing ZIP, returns None, or never returns.
CadSeqStep ==
    /\ kind = "cad"
    /\ bpc = "seq"
    /\ seqIdx < nItems
    /\ LET i == SeqItem(ItemList, seqIdx) IN
       /\ seqCalls' = Append(seqCalls, <<stage, i>>)
       /\ \E o \in {"ok", "fail", "hang"} :
             IF o = "hang"
             THEN /\ bpc' = "stuck"
                  /\ UNCHANGED <<created_zips, failed_files, step_progress, seqIdx>>
             ELSE /\ created_zips' = CreatedAfter(created_zips, i, o = "ok")
                  /\ failed_files' = FailedAfter(failed_files, i, o = "ok")
                  /\ step_progress' = [step_progress EXCEPT ![stage] = seqIdx + 1]
                  /\ seqIdx' = seqIdx + 1
                  /\ bpc' = bpc
    /\ UNCHANGED <<jobVars, startVars, cacheVars, nameVars>>
    /\ UNCHANGED <<nItems, max_workers, kind, stage, fut, subIdx, collected,
                   completed_count, warnings, stageInputs, dir_artikelbild_max,
                   dir_katalog, copyFiles, importRows>>

\* The sequential loop has run over every item.
CadSeqDone ==
    /\ kind = "cad"
    /\ bpc = "seq"
    /\ seqIdx = nItems
    /\ bpc' = "summary"
    /\ UNCHANGED <<jobVars, startVars, cacheVars, nameVars>>
    /\ UNCHANGED <<nItems, max_workers, kind, stage, fut, subIdx, collected,
                   completed_count, warnings, seqIdx, seqCalls, stageInputs,
                   step_progress, dir_artikelbild_max, dir_katalog, copyFiles,
                   importRows, created_zips, failed_files>>

\* Summary and results; in upload mode the ZIPs are copied for download,
\* which may raise into the outermost except.
CadFinish ==
    /\ kind = "cad"
    /\ bpc = "summary"
    /\ \E copyOk \in BOOLEAN : bpc' = IF copyOk THEN "done" ELSE "failed"
    /\ UNCHANGED <<jobVars, startVars, cacheVars, nameVars>>
    /\ UNCHANGED <<nItems, max_workers, kind, stage, fut, subIdx, collected,
                   completed_count, warnings, seqIdx, seqCalls, stageInputs,
                   step_progress, dir_artikelbild_max, dir_katalog, copyFiles,
                   importRows, created_zips, failed_files>>

NextCad ==
    \/ CadBegin
    \/ PoolSubmit
    \/ PoolStart
    \/ PoolFinish
    \/ PoolHang
    \/ CadCollect
    \/ CadStageDone
    \/ CadFallback
    \/ CadSeqStep
    \/ CadSeqDone
    \/ CadFinish

SpecCad == InitCad /\ [][NextCad]_vars
\* ------------------------------------------------------------------------
\* Properties of the pooled batches
\* ------------------------------------------------------------------------
Stages == DOMAIN fut

\* The run has returned (results or None).
RunFinished == bpc \in {"done", "failed", "returned_none"}

\* st.warning("Fehler bei <item>") was shown for item i in stage s
ItemWarned(s, i) == <<"item", s, i>> \in Seq2Set(warnings)
\* The fallback of stage s was announced.
FellBack(s) == <<"fallback", s, 0>> \in Seq2Set(warnings)

AnyHung == \E s \in Stages, i \in Items : fut[s][i] = "hang"

\* C5 (as claimed): in a parallel stage, once a transform never returns the
\* item is reported as a failure and the run still finishes.
C5_HungTransformTimesOut ==
    AnyHung ~> (RunFinished /\ \A s \in Stages, i \in Items : fut[s][i] = "hang" => ItemWarned(s, i))

Range(q) == {q[k] : k \in 1..Len(q)}
NoRepeat(q) == Cardinality(Range(q)) = Len(q)

\* C6: in the CAD batch no file is counted twice, and after the stage
\* (parallel, or sequential after a fallback) every file has exactly one
\* outcome: len(created_zips) + len(failed_files) == total_files.
C6_OneOutcomePerItem ==
    /\ NoRepeat(created_zips \o failed_files)
    /\ Range(created_zips \o failed_files) \subseteq Items
    /\ bpc \in {"summary", "done", "failed"} =>
          Len(created_zips) + Len(failed_files) = nItems

\* C6 witness: a finished CAD run of two files that fell back to the
\* sequential loop, one ZIP created and one file failed.
C6_Witness ==
    /\ kind = "cad"
    /\ bpc = "done"
    /\ FellBack(1)
    /\ Len(created_zips) = 1
    /\ Len(failed_files) = 1

\* Transform calls the sequential fallback of stage s has made, in order.
SeqCallsOf(s) == SelectSeq(seqCalls, LAMBDA c : c[1] = s)
\* Items of stage s that the fallback reported as failed.
SeqWarnedOf(s) == {i \in Items : ItemWarned(s, i)}

\* C7: when the pool raises, the stage announces the fallback and runs the
\* transform over the same items one after the other in list order, every
\* item it has gone through has exactly one outcome (counted or warned), and
\* the run goes on to the next stage: the fallback never aborts the run.
C7_SequentialFallback ==
    /\ [](\A s \in Stages :
            /\ bpc \in {"seq", "stuck"} /\ stage = s => FellBack(s)
            /\ SeqCallsOf(s) /= <<>> => FellBack(s)
            /\ SeqCallsOf(s) = [k \in 1..Len(SeqCallsOf(s)) |-> <<s, ItemList[k]>>]
            /\ bpc = "seq" /\ stage = s =>
                  /\ Len(SeqCallsOf(s)) = seqIdx
                  /\ completed_count + Cardinality(SeqWarnedOf(s)) = seqIdx)
    /\ [][/\ bpc = "abort" => bpc' \in {"abort", "seq"}
          /\ bpc = "seq" /\ bpc' /= "seq" =>
                /\ bpc' /= "stuck" => seqIdx = nItems
                /\ bpc' \in {"stuck", "copy"} \/ (bpc' = "pool" /\ stage' = stage + 1)]_vars

\* C7 witness: both stages fell back, an item failed in one of the
\* sequential loops, and the run reached its end.
C7_Witness ==
    /\ kind = "img"
    /\ bpc = "done"
    /\ FellBack(1)
    /\ FellBack(2)
    /\ nItems >= 2
    /\ \E i \in Items : ItemWarned(1, i)

\* The transform of item i has been entered in stage s.
TransformStarted(s, i) ==
    \/ fut[s][i] \in {"running", "ok", "fail", "hang"}
    \/ <<s, i>> \in Seq2Set(seqCalls)
\* No transform of stage s is pending or running, and every item has been
\* through the transform of stage s.
StageFinished(s) ==
    /\ \A i \in Items :
          /\ fut[s][i] \notin {"queued", "running", "hang"}
          /\ fut[s][i] \in {"ok", "fail"} \/ <<s, i>> \in Seq2Set(seqCalls)
    /\ ~(bpc = "stuck" /\ stage = s)

\* C8: no catalog transform is entered before the crop transform has
\* finished for every item, and the copy step is not reached before the
\* catalog transform has finished for every item.
C8_BatchBarrier ==
    /\ kind = "img" /\ (\E i \in Items : TransformStarted(2, i)) => StageFinished(1)
    /\ kind = "img" /\ bpc \in {"copy", "excel", "done", "failed"} =>
          StageFinished(1) /\ StageFinished(2)

\* C8 witness: a catalog transform is running in the pool after a crop
\* stage that had fallen back to the sequential loop.
C8_Witness ==
    /\ kind = "img"
    /\ FellBack(1)
    /\ \E i \in Items : fut[1][i] \in {"ok", "fail"}
    /\ \E i \in Items : fut[2][i] = "running"

\* C9 (as claimed): the catalog batch receives exactly the n - k items that
\* did not fail the crop stage.
C9_FailedItemsExcluded ==
    kind = "img" /\ stageInputs[2] /= <<>> =>
        /\ Len(stageInputs[2]) = nItems - Cardinality(SeqWarnedOf(1))
        /\ Range(stageInputs[2]) \cap SeqWarnedOf(1) = {}

\* A pooled stage of the image pipeline that has run to its end without the
\* sequential fallback.
PoolStageOver(s) ==
    /\ kind = "img"
    /\ nItems > 0
    /\ ~FellBack(s)
    /\ stage > s \/ bpc \in {"copy", "excel", "done", "failed"}

\* C22 (as claimed): once a pooled stage is over, the last value given to
\* its progress bar is total / total = 1, however many items failed.
C22_ProgressReachesOne ==
    \A s \in Stages : PoolStageOver(s) => step_progress[s] = nItems

\* total_copy_files = len(image_files) * 3
TotalCopyFiles == nItems * 3

\* C28 (as claimed): the copy step never has more copy tasks than
\* total_copy_files, so completed_copy / total_copy_files never exceeds 1.
C28_CopyProgressBounded ==
    copyFiles <= TotalCopyFiles

\* ========================================================================
\* Start button handler: job identifiers
\* ========================================================================
Sessions == 1..MaxSessions

\* datetime.now().strftime("%Y%m%d_%H%M%S")
JobId(t) == t \div TicksPerSecond

InitStart ==
    /\ JobIdle
    /\ BatchIdle
    /\ CacheIdle
    /\ NamesIdle
    /\ handler \in {"page", "skript"}
    /\ clock = 0
    /\ ready = [s \in Sessions |-> TRUE]
    /\ wakeAt = [s \in Sessions |-> 0]
    /\ jobs = <<>>
    /\ mz_jobs = [s \in Sessions |-> <<>>]
    /\ xlsx = <<>>

\* Time passes.
Tick ==
    /\ clock < MaxClock
    /\ clock' = clock + 1
    /\ UNCHANGED <<handler, ready, wakeAt, jobs, mz_jobs, xlsx>>
    /\ UNCHANGED <<jobVars, batchVars, cacheVars, nameVars>>

\* The start button is pressed in session s: the handler creates the job,
\* stores it and its queue under job_id and starts the thread; the page then
\* sleeps one second before st.rerun(), the script reruns at once.
StartPressed(s) ==
    /\ ready[s]
    /\ Len(jobs) < MaxJobs
    /\ LET job_id == JobId(clock)
           j == Len(jobs) + 1
       IN
       /\ jobs' = Append(jobs, [job_id |-> job_id, session |-> s, status |-> "queued"])
       /\ mz_jobs' = [mz_jobs EXCEPT ![s] = (job_id :> j) @@ @]
    /\ IF handler = "page"
       THEN /\ ready' = [ready EXCEPT ![s] = FALSE]
            /\ wakeAt' = [wakeAt EXCEPT ![s] = clock + TicksPerSecond]
       ELSE UNCHANGED <<ready, wakeAt>>
    /\ UNCHANGED <<handler, clock, xlsx>>
    /\ UNCHANGED <<jobVars, batchVars, cacheVars, nameVars>>

\* time.sleep(1) of the page's handler returns.
SleepEnds(s) ==
    /\ ~ready[s]
    /\ clock >= wakeAt[s]
    /\ ready' = [ready EXCEPT ![s] = TRUE]
    /\ UNCHANGED <<handler, clock, wakeAt, jobs, mz_jobs, xlsx>>
    /\ UNCHANGED <<jobVars, batchVars, cacheVars, nameVars>>

\* The files that have written Import_MZ_<job_id>.xlsx once job j has.
\* The script writes cfg.excel_output, one fixed path, instead.
XlsxAfter(x, job_id, j) ==
    (job_id :> Append(IF job_id \in DOMAIN x THEN x[job_id] ELSE <<>>, j)) @@ x

\* The thread of job j runs to its end.
JobRuns(j) ==
    /\ jobs[j].status = "queued"
    /\ \E st \in {"completed", "error"} :
          /\ jobs' = [jobs EXCEPT ![j].status = st]
          /\ xlsx' = IF st = "completed" /\ handler = "page"
                     THEN XlsxAfter(xlsx, jobs[j].job_id, j)
                     ELSE xlsx
    /\ UNCHANGED <<handler, clock, ready, wakeAt, mz_jobs>>
    /\ UNCHANGED <<jobVars, batchVars, cacheVars, nameVars>>

NextStart ==
    \/ Tick
    \/ \E s \in Sessions : StartPressed(s)
    \/ \E s \in Sessions : SleepEnds(s)
    \/ \E j \in 1..Len(jobs) : JobRuns(j)

SpecStart == InitStart /\ [][NextStart]_vars

\* C18 (as claimed): two jobs started in the same session never have the
\* same identifier, so a start never replaces an entry of the job table or
\* its queue, and no Import_MZ_<job_id>.xlsx is written by more than one
\* job.
C18_UniqueJobId ==
    /\ \A j, k \in 1..Len(jobs) :
          (j /= k /\ jobs[j].session = jobs[k].session) =>
              jobs[j].job_id /= jobs[k].job_id
    /\ \A id \in DOMAIN xlsx : Len(xlsx[id]) <= 1

\* ========================================================================
\* Directory scans through get_file_list_cached
\* ========================================================================

InitCache ==
    /\ JobIdle
    /\ BatchIdle
    /\ StartIdle
    /\ NamesIdle
    /\ dirNow \in 0..MaxFiles
    /\ cacheVal = -1
    /\ cacheAge = 0
    /\ scans = 0
    /\ scanDir = 0
    /\ scanTotal = 0
    /\ scanOutcome = "none"

\* Files are put into the input directory or taken out of it.
DirChange ==
    /\ \E n \in 0..MaxFiles : n /= dirNow /\ dirNow' = n
    /\ UNCHANGED <<cacheVal, cacheAge, scans, scanDir, scanTotal, scanOutcome>>
    /\ UNCHANGED <<jobVars, batchVars, startVars, nameVars>>

\* Time passes; an entry older than the ttl is no longer served.
CacheTick ==
    /\ cacheVal >= 0
    /\ cacheAge < CacheTtl
    /\ cacheAge' = cacheAge + 1
    /\ UNCHANGED <<dirNow, cacheVal, scans, scanDir, scanTotal, scanOutcome>>
    /\ UNCHANGED <<jobVars, batchVars, startVars, nameVars>>

\* st.cache_data(ttl=300) has a value for these arguments.
CacheFresh == cacheVal >= 0 /\ cacheAge < CacheTtl

\* get_file_list_cached(str(job.cfg.eps_data), [...]): the stored list while
\* it is fresh, otherwise the directory as it is now
CachedListing(fresh, stored, dir) == IF fresh THEN stored ELSE dir

\* The scan of a job started now: the cached listing, or rglob when the
\* cache call raises; then "if job.total_files == 0: raise ValueError".
JobScan ==
    /\ scans < MaxScans
    /\ scans' = scans + 1
    /\ scanDir' = dirNow
    /\ \E cacheOk \in BOOLEAN :
          LET n == IF cacheOk THEN CachedListing(CacheFresh, cacheVal, dirNow) ELSE dirNow
          IN
          /\ scanTotal' = n
          /\ scanOutcome' = IF RaisesOnNoFiles("page", n) THEN "no_files" ELSE "processing"
          /\ IF cacheOk /\ ~CacheFresh
             THEN cacheVal' = dirNow /\ cacheAge' = 0
             ELSE UNCHANGED <<cacheVal, cacheAge>>
    /\ UNCHANGED dirNow
    /\ UNCHANGED <<jobVars, batchVars, startVars, nameVars>>

NextCache ==
    \/ DirChange
    \/ CacheTick
    \/ JobScan

SpecCache == InitCache /\ [][NextCache]_vars

\* C27 (as claimed): the job works on the directory as it is when the job
\* scans it: with at least one image file there the scan never ends in the
\* "no files found" error, and total_files is the number of files there.
C27_ListingIsCurrent ==
    scans > 0 =>
        /\ scanDir > 0 => scanOutcome /= "no_files"
        /\ scanTotal = scanDir

\* ========================================================================
\* File names: output paths of the stages and create_import_excel
\* ========================================================================

\* A file name is a sequence of characters.  "0", "1", "_" and "." are
\* single characters ("1" stands for any character other than the three);
\* "png", "PNG", "jpg" and "txt" each stand for the letters that follow
\* the last dot of a name.
StemChars == {"0", "1", "_", "."}
ExtLetters == {"png", "PNG", "jpg", "txt"}
\* '.png', '.jpg', '.jpeg', '.tiff', '.tif', '.bmp', without the dot
ImageExts == {"png", "jpg"}

RECURSIVE Stems(_)
Stems(n) == IF n = 0 THEN {<<>>}
            ELSE Stems(n - 1) \cup {Append(x, c) : x \in Stems(n - 1), c \in StemChars}

\* The file names of at most n stem characters, with and without extension.
Names(n) == (Stems(n) \ {<<>>}) \cup {x \o <<".", e>> : x \in Stems(n), e \in ExtLetters}

\* str.lower()
Lower(c) == IF c = "PNG" THEN "png" ELSE c
LowerStr(x) == [k \in 1..Len(x) |-> Lower(x[k])]

\* str.rfind('.') + 1: position of the last dot, 0 when there is none
RFindDot(x) ==
    IF \E k \in 1..Len(x) : x[k] = "."
    THEN CHOOSE k \in 1..Len(x) : x[k] = "." /\ \A j \in (k + 1)..Len(x) : x[j] /= "."
    ELSE 0

\* (mutant: leading zeros are kept)
Lstrip0_Keeps(x) == x
\* str.lstrip('0')
RECURSIVE Lstrip0(_)
Lstrip0(x) == IF x /= <<>> /\ Head(x) = "0" THEN Lstrip0(Tail(x)) ELSE x

\* str.rsplit('.', 1)[0]
RsplitDotHead(x) == IF RFindDot(x) = 0 THEN x ELSE SubSeq(x, 1, RFindDot(x) - 1)

\* str.replace('_', '.')
ReplaceUnderscore(x) == [k \in 1..Len(x) |-> IF x[k] = "_" THEN "." ELSE x[k]]

\* name[:4] + ' ' + name[4:].replace('_', '.') if len(name) >= 4 else name
Reformat(name) ==
    IF Len(name) >= 4
    THEN SubSeq(name, 1, 4) \o <<" ">> \o ReplaceUnderscore(SubSeq(name, 5, Len(name)))
    ELSE name

\* The Artikel-Nr of one file name.
ArtikelNr(file_name) == Reformat(RsplitDotHead(Lstrip0(file_name)))

\* file_name.lower().endswith(('.png', '.jpg', ...))
EndsWithImageExt(x) ==
    /\ Len(x) >= 2
    /\ x[Len(x) - 1] = "."
    /\ Lower(x[Len(x)]) \in ImageExts

\* process_filenames(folder_path)
ProcessFilenames(l) ==
    LET kept == SelectSeq(l, EndsWithImageExt) IN [k \in 1..Len(kept) |-> ArtikelNr(kept[k])]

\* os.path.splitext(file_name): leading dots are not an extension
Splitext(x) ==
    LET i == RFindDot(x) IN
    IF i > 0 /\ \E k \in 1..(i - 1) : x[k] /= "."
    THEN <<SubSeq(x, 1, i - 1), SubSeq(x, i, Len(x))>>
    ELSE <<x, <<>>>>

\* ext.lower() in valid_extensions
HasValidExt(x) ==
    LET ext == Splitext(x)[2] IN
    Len(ext) = 2 /\ Lower(ext[2]) \in ImageExts

StemOf(x) == Splitext(x)[1]
CombinedOf(x) == Splitext(x)[1] \o LowerStr(Splitext(x)[2])

\* get_image_info(folder_path)
NamesWithoutExt(l) ==
    LET kept == SelectSeq(l, HasValidExt) IN [k \in 1..Len(kept) |-> StemOf(kept[k])]
CombinedPaths(l) ==
    LET kept == SelectSeq(l, HasValidExt) IN [k \in 1..Len(kept) |-> CombinedOf(kept[k])]

\* PurePath.suffix: the last dot counts unless it is the first or the last
\* character of the name
PathSuffix(x) ==
    LET i == RFindDot(x) IN
    IF 1 < i /\ i < Len(x) THEN SubSeq(x, i, Len(x)) ELSE <<>>

\* PurePath.with_suffix('.' + e).name
WithSuffix(x, e) == SubSeq(x, 1, Len(x) - Len(PathSuffix(x))) \o <<".", e>>

\* f.suffix.lower() in ['.png', '.jpg', ...]
IsImageFile(x) ==
    LET suf == PathSuffix(x) IN Len(suf) = 2 /\ Lower(suf[2]) \in ImageExts

\* image_files
ImageFiles(l) == SelectSeq(l, IsImageFile)

\* crop_white_or_transparent_border: output_path.with_suffix(".tif")
CropTarget(x) == WithSuffix(x, "tif")
\* dir_katalog / file_path.with_suffix('.jpg').name
CatalogTarget(x) == WithSuffix(x, "jpg")

\* A directory holds one file, or two files of different names.
InitNames ==
    /\ JobIdle
    /\ BatchIdle
    /\ StartIdle
    /\ CacheIdle
    /\ listing \in {<<a>> : a \in Names(MaxStem)} \cup
                   {<<a, b>> : a \in Names(MaxPairStem), b \in Names(MaxPairStem)}
    /\ Len(listing) = 2 => listing[1] /= listing[2]
    /\ npc = "start"
    /\ cropTargets = <<>>
    /\ catalogTargets = <<>>
    /\ processed_file_names = <<>>
    /\ names_without_ext = <<>>
    /\ combined = <<>>
    /\ df = <<>>

\* The executor.submit calls of the two stages: one output path per input
\* file.
SubmitTargets ==
    /\ npc = "start"
    /\ cropTargets' = [k \in 1..Len(ImageFiles(listing)) |-> CropTarget(ImageFiles(listing)[k])]
    /\ catalogTargets' = [k \in 1..Len(ImageFiles(listing)) |-> CatalogTarget(ImageFiles(listing)[k])]
    /\ npc' = "excel"
    /\ UNCHANGED <<listing, processed_file_names, names_without_ext, combined, df>>
    /\ UNCHANGED <<jobVars, batchVars, startVars, cacheVars>>

\* processed_file_names = process_filenames(original_dir)
RunProcessFilenames ==
    /\ npc = "excel"
    /\ processed_file_names' = ProcessFilenames(listing)
    /\ npc' = "info"
    /\ UNCHANGED <<listing, cropTargets, catalogTargets, names_without_ext, combined, df>>
    /\ UNCHANGED <<jobVars, batchVars, startVars, cacheVars>>

\* names_without_ext, combined = get_image_info(original_dir)
RunGetImageInfo ==
    /\ npc = "info"
    /\ names_without_ext' = NamesWithoutExt(listing)
    /\ combined' = CombinedPaths(listing)
    /\ npc' = "frame"
    /\ UNCHANGED <<listing, cropTargets, catalogTargets, processed_file_names, df>>
    /\ UNCHANGED <<jobVars, batchVars, startVars, cacheVars>>

\* "if not processed_file_names: raise ValueError", then pd.DataFrame, which
\* raises when its columns differ in length.
BuildFrame ==
    /\ npc = "frame"
    /\ IF processed_file_names = <<>> \/ Len(processed_file_names) /= Len(names_without_ext)
       THEN /\ npc' = "raised"
            /\ UNCHANGED df
       ELSE /\ npc' = "done"
            /\ df' = <<[k \in 1..Len(names_without_ext) |->
                          [artikel |-> processed_file_names[k],
                           original |-> combined[k],
                           stem |-> names_without_ext[k]]]>>
    /\ UNCHANGED <<listing, cropTargets, catalogTargets, processed_file_names,
                   names_without_ext, combined>>
    /\ UNCHANGED <<jobVars, batchVars, startVars, cacheVars>>

NextNames ==
    \/ SubmitTargets
    \/ RunProcessFilenames
    \/ RunGetImageInfo
    \/ BuildFrame

SpecNames == InitNames /\ [][NextNames]_vars

\* C24 (as claimed): input files of different names get different output
\* paths in the crop stage and in the catalog stage.
C24_DistinctTargets ==
    \A j, k \in 1..Len(cropTargets) :
        j /= k => cropTargets[j] /= cropTargets[k] /\ catalogTargets[j] /= catalogTargets[k]

\* Number of "0" characters a name starts with.
LeadingZeros(x) ==
    IF \A k \in 1..Len(x) : x[k] = "0" THEN Len(x)
    ELSE (CHOOSE k \in 1..Len(x) : x[k] /= "0" /\ \A j \in 1..(k - 1) : x[j] = "0") - 1

\* The identifier as the claim words it: extension removed, leading zeros
\* stripped, a space after the first four characters when there are that
\* many, and every "_" behind them turned into ".".
ClaimedArtikelNr(file_name) ==
    LET stem == SubSeq(file_name, 1, Len(file_name) - 2)
        name == SubSeq(stem, LeadingZeros(stem) + 1, Len(stem))
    IN
    IF Len(name) < 4 THEN name
    ELSE [k \in 1..(Len(name) + 1) |->
            IF k <= 4 THEN name[k]
            ELSE IF k = 5 THEN " "
            ELSE IF name[k - 1] = "_" THEN "." ELSE name[k - 1]]

\* C25: every entry of the Artikel-Nr column is the identifier of its own
\* file name as the claim words it, whatever else the directory holds and
\* wherever the file stands in the listing.
C25_ArtikelNrDerivation ==
    npc \in {"info", "frame", "done", "raised"} =>
        LET files == SelectSeq(listing, EndsWithImageExt) IN
        /\ Len(processed_file_names) = Len(files)
        /\ \A k \in 1..Len(files) : processed_file_names[k] = ClaimedArtikelNr(files[k])

\* C25 witness: a name with a leading zero, four characters and an
\* underscore behind them.
C25_Witness ==
    /\ npc = "done"
    /\ Len(listing) = 1
    /\ listing[1][1] = "0"
    /\ Len(processed_file_names[1]) = 6
    /\ processed_file_names[1][5] = " "
    /\ processed_file_names[1][6] = "."
    /\ listing[1][6] = "_"

\* C30 (as claimed): the two filters of create_import_excel select the same
\* files, so the Artikel-Nr column and the path columns have the same
\* length and the same files behind their rows.
C30_ColumnsAligned ==
    npc \in {"frame", "done", "raised"} =>
        /\ Len(processed_file_names) = Len(names_without_ext)
        /\ SelectSeq(listing, EndsWithImageExt) = SelectSeq(listing, HasValidExt)
====
